---- MODULE Spec2Model ----
(***************************************************************************)
(* FPGADevice.py: the pseudoclock codec (reduce_clock_instructions,        *)
(* convert_to_clocks_and_toggles, expand_clock) and the smart programming  *)
(* cache of FPGADeviceWorker.                                              *)
(*                                                                         *)
(* Representation of the reals of the source.  A period ('step') is a      *)
(* whole number of 1/PeriodDen seconds, so that step * clock_limit is the  *)
(* exact rational (step * clock_limit) / PeriodDen and int() truncates it. *)
(* A time returned by expand_clock is n / clock_limit for a whole number n *)
(* of clock cycles; the model keeps n.  stop_time is a whole number of     *)
(* 1/PeriodDen seconds.  Floating point rounding is not modelled.          *)
(***************************************************************************)
EXTENDS Integers, Sequences, FiniteSets, TLC

VARIABLES
    instructions,   \* the clock instructions of the pseudoclock as compiled
    arg,            \* the clock argument of the last codec call
    clock,          \* pseudoclock.clock
    output,         \* the output attached to the pseudoclock
    clock_limit,    \* cycles per second
    ct_clock,       \* the (n_clocks, toggles) list
    stop_time,      \* in 1/PeriodDen seconds
    times,          \* result of expand_clock, in clock cycles
    pc,             \* position in the generate_code / get_traces pipeline
    smart_cache_clocks,  \* smart_cache['clocks']: output name -> tick list
    smart_cache_data,    \* smart_cache['data']:   output name -> samples
    returned,       \* what the last worker call returned
    h5file,         \* the shot file of the last transition_to_buffered
    fresh_program,  \* the fresh_program argument of that call
    sent_clocks,    \* outputs whose clock reached send_pseudoclock in that call
    sent_data,      \* outputs whose data reached send_analog_data in that call
    error,          \* the send that raised in that call, if any
    final_state,    \* the dict returned by that call
    device,         \* the FPGADevice: n_analog, n_digital and its three lists
    declared,       \* the n_analog and n_digital given to __init__, and
                    \* whether generate_code has run
    last,           \* the last call on the device and how it ended
    output_values,  \* smart_cache['output_values']: output name -> value
    values,         \* the argument of the last program_manual
    actual_values,  \* what send_realtime_value returned in that call
    modified_values, \* the dict returned by that call
    manual_error    \* whether that call raised instead of returning

codec_vars == <<instructions, arg, clock, output, clock_limit, ct_clock,
                stop_time, times, pc>>
worker_vars == <<smart_cache_clocks, smart_cache_data, returned, h5file,
                 fresh_program, sent_clocks, sent_data, error, final_state>>
device_vars == <<device, declared, last>>
manual_vars ==
    <<output_values, values, actual_values, modified_values, manual_error>>
vars == <<codec_vars, worker_vars, device_vars, manual_vars>>

----------------------------------------------------------------------------
(* Bounds of the model *)

MaxLen == 3
MaxStep == 2
MaxReps == 2
MaxTicks == 2
MaxHold == 1
MaxToggles == 2
MaxStop == 3
MaxSamples == 2

PeriodDen == 10
StopTime == 10
MaxDeclared == 1   \* largest n_analog, n_digital given to __init__
MaxOutputs == 3    \* accesses to outputs that create a channel
MaxValue == 1      \* front panel values are 0..MaxValue

ClockLimits == {5, 10}

----------------------------------------------------------------------------
(* reduce_clock_instructions *)

WAIT == [wait |-> TRUE]

Instruction(step, reps) == [step |-> step, reps |-> reps]

ReduceStepAppendMerged(reduced_instructions, instruction) ==
    IF instruction = WAIT
    THEN Append(reduced_instructions, Instruction(0, 1))
    ELSE LET n == Len(reduced_instructions) IN
         IF n > 0 /\ reduced_instructions[n].step = instruction.step
         THEN Append(reduced_instructions,
                     Instruction(instruction.step,
                                 reduced_instructions[n].reps + instruction.reps))
         ELSE Append(reduced_instructions,
                     Instruction(instruction.step, instruction.reps))

\* the body of the for loop: one instruction folded into reduced_instructions
ReduceStep(reduced_instructions, instruction) ==
    IF instruction = WAIT
    THEN Append(reduced_instructions, Instruction(0, 1))
    ELSE LET n == Len(reduced_instructions) IN
         IF n > 0 /\ reduced_instructions[n].step = instruction.step
         THEN [reduced_instructions EXCEPT ![n].reps = @ + instruction.reps]
         ELSE Append(reduced_instructions,
                     Instruction(instruction.step, instruction.reps))

RECURSIVE ReduceFrom(_, _, _)
ReduceFrom(clk, i, reduced_instructions) ==
    IF i > Len(clk)
    THEN reduced_instructions
    ELSE ReduceFrom(clk, i + 1, ReduceStep(reduced_instructions, clk[i]))

reduce_clock_instructions(clk) == ReduceFrom(clk, 1, <<>>)

----------------------------------------------------------------------------
(* convert_to_clocks_and_toggles *)

DigitalOut(raw0) == [class |-> "DigitalOut", raw_output |-> <<raw0>>]
AnalogOut == [class |-> "AnalogOut", raw_output |-> <<>>]
OtherOut == [class |-> "Output", raw_output |-> <<>>]
NoOutput == [class |-> "None", raw_output |-> <<>>]

\* int(step * clock_limit)
Cycles(step, limit) == (step * limit) \div PeriodDen

ConvertStepKeepReps(st, i, out, limit) ==
    LET tick == st.clock[i]
        n_clocks == Cycles(tick.step, limit) - 1
    IN  IF i = 1
        THEN IF out.class \notin {"DigitalOut", "AnalogOut"}
             THEN [st EXCEPT !.raised = TRUE]
             ELSE LET initial_state == IF out.class = "DigitalOut"
                                       THEN out.raw_output[1]
                                       ELSE 0
                      first == Append(st.ct_clock, <<n_clocks, initial_state>>)
                  IN  [st EXCEPT !.ct_clock = Append(first, <<n_clocks, tick.reps - 1>>)]
        ELSE [st EXCEPT !.ct_clock = Append(@, <<n_clocks, tick.reps - 1>>)]

ConvertStepNoContinue(st, i, out, limit) ==
    LET tick == st.clock[i]
        n_clocks == Cycles(tick.step, limit) - 1
    IN  IF i = 1
        THEN IF out.class \notin {"DigitalOut", "AnalogOut"}
             THEN [st EXCEPT !.raised = TRUE]
             ELSE LET initial_state == IF out.class = "DigitalOut"
                                       THEN out.raw_output[1]
                                       ELSE 0
                      reps == tick.reps - 1
                  IN  [st EXCEPT !.clock[1].reps = reps,
                                 !.ct_clock = st.ct_clock
                                     \o <<(<<n_clocks, initial_state>>)>>
                                     \o <<(<<n_clocks, reps - 1>>)>>]
        ELSE [st EXCEPT !.ct_clock = Append(@, <<n_clocks, tick.reps - 1>>)]

\* the body of the for loop over enumerate(clock); st holds the clock list
\* (whose dicts the loop updates in place), ct_clock and whether it raised
ConvertStep(st, i, out, limit) ==
    LET tick == st.clock[i]
        n_clocks == Cycles(tick.step, limit) - 1
    IN  IF i = 1
        THEN IF out.class \notin {"DigitalOut", "AnalogOut"}
             THEN [st EXCEPT !.raised = TRUE]
             ELSE LET initial_state == IF out.class = "DigitalOut"
                                       THEN out.raw_output[1]
                                       ELSE 0
                      reps == tick.reps - 1
                      first == Append(st.ct_clock, <<n_clocks, initial_state>>)
                  IN  [st EXCEPT !.clock[1].reps = reps,
                                 !.ct_clock = IF reps = 0
                                              THEN first
                                              ELSE Append(first, <<n_clocks, reps - 1>>)]
        ELSE [st EXCEPT !.ct_clock = Append(@, <<n_clocks, tick.reps - 1>>)]

RECURSIVE ConvertFrom(_, _, _, _)
ConvertFrom(st, i, out, limit) ==
    IF i > Len(st.clock) \/ st.raised
    THEN st
    ELSE ConvertFrom(ConvertStep(st, i, out, limit), i + 1, out, limit)

\* the list returned, the clock list as the call leaves it, and whether
\* LabscriptError was raised
convert_to_clocks_and_toggles(clk, out, limit) ==
    ConvertFrom([clock |-> clk, ct_clock |-> <<>>, raised |-> FALSE], 1, out, limit)

----------------------------------------------------------------------------
(* expand_clock *)

\* new_time > stop_time, for new_time = n / clock_limit seconds
ExceedsStop(n, limit, stop) == n * PeriodDen > stop * limit

RECURSIVE ExpandToggles(_, _, _, _, _)
ExpandToggles(ts, n_clocks, toggles, limit, stop) ==
    IF toggles <= 0
    THEN ts
    ELSE LET new_time == ts[Len(ts)] + n_clocks IN
         IF ExceedsStop(new_time, limit, stop)
         THEN ts
         ELSE ExpandToggles(Append(ts, new_time), n_clocks, toggles - 1, limit, stop)

\* the body of the for loop over enumerate(clock)
ExpandStep(ts, i, tick, limit, stop) ==
    IF i = 1
    THEN Append(ts, tick[1])
    ELSE ExpandToggles(ts, tick[1], tick[2], limit, stop)

RECURSIVE ExpandFrom(_, _, _, _, _)
ExpandFrom(ticks, i, ts, limit, stop) ==
    IF i > Len(ticks)
    THEN ts
    ELSE ExpandFrom(ticks, i + 1, ExpandStep(ts, i, ticks[i], limit, stop), limit, stop)

expand_clock(ticks, limit, stop) == ExpandFrom(ticks, 1, <<>>, limit, stop)

----------------------------------------------------------------------------
(* FPGADeviceWorker: the smart cache and transition_to_buffered *)

\* the datasets of a shot file come out of the h5py groups in name order
ClockOrder == <<"analog 0", "digital 1">>
DataOrder == <<"analog 0">>

EmptyDict == [o \in {} |-> <<>>]
Put(dict, key, value) ==
    [k \in (DOMAIN dict) \cup {key} |-> IF k = key THEN value ELSE dict[k]]

NoError == [kind |-> "none", output |-> "none"]
NoFile == [clocks |-> EmptyDict, analog_data |-> EmptyDict]

\* np.any(new != cache.get(output)) for one-dimensional arrays: a missing
\* entry is None, which is unequal to the array; equal shapes compare
\* elementwise; a length-1 array broadcasts against the other; any other
\* pair of shapes fails to compare elementwise and != gives True
NumpyAnyNotEqual(new, cache, name) ==
    IF name \notin DOMAIN cache THEN TRUE
    ELSE LET old == cache[name] IN
         IF Len(new) = Len(old) THEN \E i \in 1..Len(new) : new[i] # old[i]
         ELSE IF Len(old) = 1 THEN \E i \in 1..Len(new) : new[i] # old[1]
         ELSE IF Len(new) = 1 THEN \E i \in 1..Len(old) : new[1] # old[i]
         ELSE TRUE

RECURSIVE SumToggles(_, _)
SumToggles(clk, i) == IF i > Len(clk) THEN 0 ELSE clk[i][2] + SumToggles(clk, i + 1)

\* one pass of "for i, output in enumerate(clocks)"
ClockLoopStep(st, name, h5, fresh, fail) ==
    LET clk == h5.clocks[name]
        send == fresh \/ NumpyAnyNotEqual(clk, st.clocks, name)
        cached == IF send THEN [st EXCEPT !.clocks = Put(@, name, clk)] ELSE st
    IN  IF send /\ fail = [kind |-> "clock", output |-> name]
        THEN [cached EXCEPT !.error = fail]
        ELSE LET sent == IF send
                         THEN [cached EXCEPT !.sent_clocks = @ \cup {name}]
                         ELSE cached
             IN  IF name \notin DOMAIN h5.analog_data
                 THEN [sent EXCEPT !.final_state =
                          Put(@, name, clk[1][2] + (SumToggles(clk, 1) % 2))]
                 ELSE sent

\* one pass of "for i, output in enumerate(analog_data)"
DataLoopStep(st, name, h5, fresh, fail) ==
    LET data == h5.analog_data[name]
        send == fresh \/ NumpyAnyNotEqual(data, st.data, name)
    IN  IF ~send THEN st
        ELSE LET cached == [st EXCEPT !.final_state = Put(@, name, data[Len(data)]),
                                      !.data = Put(@, name, data)]
             IN  IF fail = [kind |-> "data", output |-> name]
                 THEN [cached EXCEPT !.error = fail]
                 ELSE [cached EXCEPT !.sent_data = @ \cup {name}]

RECURSIVE ClockLoop(_, _, _, _, _)
ClockLoop(st, i, h5, fresh, fail) ==
    IF i > Len(ClockOrder) \/ st.error # NoError
    THEN st
    ELSE ClockLoop(ClockLoopStep(st, ClockOrder[i], h5, fresh, fail),
                   i + 1, h5, fresh, fail)

RECURSIVE DataLoop(_, _, _, _, _)
DataLoop(st, i, h5, fresh, fail) ==
    IF i > Len(DataOrder) \/ st.error # NoError
    THEN st
    ELSE DataLoop(DataLoopStep(st, DataOrder[i], h5, fresh, fail),
                  i + 1, h5, fresh, fail)

\* the worker's state when the call returns or raises
transition_to_buffered(h5, fresh, fail) ==
    DataLoop(ClockLoop([clocks |-> smart_cache_clocks,
                        data |-> smart_cache_data,
                        sent_clocks |-> {},
                        sent_data |-> {},
                        final_state |-> EmptyDict,
                        error |-> NoError], 1, h5, fresh, fail),
             1, h5, fresh, fail)

----------------------------------------------------------------------------
(* FPGADevice and OutputIntermediateDevice *)

\* a string is the sequence of its characters
Analog == <<"a", "n", "a", "l", "o", "g">>
Digital == <<"d", "i", "g", "i", "t", "a", "l">>
Digits == {"0", "1", "2", "3", "4", "5", "6", "7", "8", "9"}

\* str.split(' '): a part ends at every single space
RECURSIVE SplitFrom(_, _, _, _)
SplitFrom(str, i, parts, part) ==
    IF i > Len(str)
    THEN Append(parts, part)
    ELSE IF str[i] = " "
         THEN SplitFrom(str, i + 1, Append(parts, part), <<>>)
         ELSE SplitFrom(str, i + 1, parts, Append(part, str[i]))

Split(str) == SplitFrom(str, 1, <<>>, <<>>)

\* int(str) returns: an optional sign, then one digit or more
IntParses(str) ==
    LET digits == IF str # <<>> /\ str[1] \in {"+", "-"} THEN Tail(str) ELSE str
    IN  digits # <<>> /\ \A i \in 1..Len(digits) : digits[i] \in Digits

Device(class, connection) == [class |-> class, connection |-> connection]
NoDevice == Device("None", <<>>)

\* OutputIntermediateDevice.__init__
NewOutputDevice(n) == [name |-> n, child_devices |-> <<>>, output |-> NoDevice]

ValidConnection(connection) ==
    LET parts == Split(connection) IN
    /\ Len(parts) = 2
    /\ parts[1] \in {Analog, Digital}
    /\ IntParses(parts[2])

\* OutputIntermediateDevice.add_device: the device as the call leaves it and
\* the error raised
add_device(oid, dev) ==
    IF oid.child_devices # <<>>
    THEN [oid |-> oid, error |-> "LabscriptError"]
    ELSE IF ~ValidConnection(dev.connection)
         THEN [oid |-> oid, error |-> "LabscriptError"]
         ELSE [oid |-> [oid EXCEPT !.child_devices = Append(@, dev), !.output = dev],
               error |-> "None"]

\* an argument of __init__ that was given, and None
Given(n) == [given |-> TRUE, n |-> n]
NotGiven == [given |-> FALSE, n |-> 0]

\* FPGADevice.__init__
NewDevice(n_analog, n_digital) ==
    [n_analog |-> n_analog, n_digital |-> n_digital,
     pseudoclocks |-> <<>>, clocklines |-> <<>>, output_devices |-> <<>>]

\* the property FPGADevice.outputs: n_digital + n_analog is a TypeError, and
\* max_n is None, unless both were given
outputs(dev) ==
    LET n == Len(dev.pseudoclocks) IN
    IF dev.n_digital.given /\ dev.n_analog.given
       /\ n = dev.n_digital.n + dev.n_analog.n
    THEN [device |-> dev, error |-> "LabscriptError"]
    ELSE [device |-> [dev EXCEPT !.pseudoclocks = Append(@, n),
                                 !.clocklines = Append(@, n),
                                 !.output_devices = Append(@, NewOutputDevice(n))],
          error |-> "None"]

\* outputs.count(AnalogOut), outputs.count(DigitalOut)
CountClass(dev, class) ==
    Cardinality({i \in 1..Len(dev.output_devices) :
                     dev.output_devices[i].output.class = class})

\* "if not self.n_digital: self.n_digital = n_digital": None and 0 are both false
Expected(n, found) == IF ~n.given \/ n.n = 0 THEN Given(found) ELSE n

\* the datasets written before the loop reaches an output device with no
\* output, where output.connection is an AttributeError
RECURSIVE WrittenFrom(_, _)
WrittenFrom(dev, i) ==
    IF i > Len(dev.output_devices) \/ dev.output_devices[i].output = NoDevice
    THEN i - 1
    ELSE WrittenFrom(dev, i + 1)

\* FPGADevice.generate_code: the device as the call leaves it, the error
\* raised and the number of clocks reduced, encoded and written
generate_code(dev) ==
    LET n_analog == CountClass(dev, "AnalogOut")
        n_digital == CountClass(dev, "DigitalOut")
        checked == [dev EXCEPT !.n_digital = Expected(@, n_digital),
                               !.n_analog = Expected(@, n_analog)]
        written == WrittenFrom(dev, 1)
    IN  IF checked.n_analog.n # n_analog \/ checked.n_digital.n # n_digital
        THEN [device |-> checked, error |-> "LabscriptError", written |-> 0]
        ELSE [device |-> checked,
              error |-> IF written < Len(dev.output_devices)
                        THEN "AttributeError" ELSE "None",
              written |-> written]

----------------------------------------------------------------------------
(* FPGADeviceWorker.program_manual *)

OutputNames == {"analog 0", "digital 1"}

\* value != self.smart_cache['output_values'].get(output_name): None differs
\* from every value
ValueDiffers(value, cache, name) ==
    IF name \in DOMAIN cache THEN cache[name] # value ELSE TRUE

\* the outputs send_realtime_value was called for and returned: of the outputs
\* the loop reached ('reached' when a send raised, all of them otherwise),
\* those whose value differs from the cached one
SentOutputs(vals, cache, reached) ==
    {name \in reached : ValueDiffers(vals[name], cache, name)}

program_manualStoreRequested(vals, cache, reached, actual) ==
    LET sent == SentOutputs(vals, cache, reached) IN
    [modified_values |-> [name \in sent |-> actual[name]],
     output_values |-> [name \in DOMAIN cache \cup sent |->
                           IF name \in sent THEN vals[name] ELSE cache[name]]]

\* the dict the call builds and the cache it leaves; actual[name] is what
\* send_realtime_value returns for the output
program_manual(vals, cache, reached, actual) ==
    LET sent == SentOutputs(vals, cache, reached) IN
    [modified_values |-> [name \in sent |-> actual[name]],
     output_values |-> [name \in DOMAIN cache \cup sent |->
                           IF name \in sent THEN actual[name] ELSE cache[name]]]

----------------------------------------------------------------------------
(* The inputs *)

SeqsBetween(S, lo, hi) == UNION {[1..k -> S] : k \in lo..hi}

InstructionSet ==
    {WAIT} \cup {Instruction(s, r) : s \in 0..MaxStep, r \in 1..MaxReps}
ClockInstructions == SeqsBetween(InstructionSet, 0, MaxLen)

AttachedOutputs == {DigitalOut(0), DigitalOut(1), AnalogOut, OtherOut}

TickLists == SeqsBetween((-1..MaxHold) \X (0..MaxToggles), 0, MaxTicks)

\* a stored clock starts with the tick holding the initial state
ShotClocks(states, toggles) ==
    {<<(<<0, s>>)>> \o rest : s \in states,
                             rest \in SeqsBetween({0} \X toggles, 0, MaxSamples - 1)}
ShotData == SeqsBetween({0, 1}, 1, MaxSamples)
ShotFiles ==
    {[clocks |-> [o \in {"analog 0", "digital 1"} |->
                      IF o = "analog 0" THEN ca ELSE cd],
      analog_data |-> [o \in {"analog 0"} |-> d]] :
        ca \in {<<(<<0, 0>>)>>}, cd \in ShotClocks({0, 1}, {1}), d \in ShotData}
SendFailures ==
    {NoError} \cup {[kind |-> "clock", output |-> o] : o \in {"analog 0", "digital 1"}}
              \cup {[kind |-> "data", output |-> o] : o \in {"analog 0"}}

\* n_analog, n_digital of __init__
Counts == {NotGiven} \cup {Given(k) : k \in 0..MaxDeclared}

Analogue == <<"a", "n", "a", "l", "o", "g", "u", "e">>
Prefixes == {Analog, Digital, Analogue, <<>>}
Separators == {<<>>, <<" ">>, <<" ", " ">>}
Channels ==
    {<<>>, <<"0">>, <<"3">>, <<"1", "0">>, <<"-", "1">>, <<"+", "2">>,
     <<"x">>, <<"-">>}
ConnectionStrings ==
    {p \o s \o c : p \in Prefixes, s \in Separators, c \in Channels}
AnyOutputs ==
    {Device(class, c) : class \in {"AnalogOut", "DigitalOut"},
                        c \in ConnectionStrings}

\* the outputs of the example script, and one with a bad connection
DeviceOutputs ==
    {Device("AnalogOut", Analog \o <<" ", "0">>),
     Device("DigitalOut", Digital \o <<" ", "1">>),
     Device("DigitalOut", Digital)}

\* dicts from output names to front panel values
Dicts(names) == UNION {[d -> 0..MaxValue] : d \in SUBSET names}

----------------------------------------------------------------------------
(* The states and the steps *)

CodecIdle ==
    /\ instructions = <<>>
    /\ arg = <<>>
    /\ clock = <<>>
    /\ output = NoOutput
    /\ clock_limit = 10
    /\ ct_clock = <<>>
    /\ stop_time = StopTime
    /\ times = <<>>
    /\ pc = "idle"

\* FPGADeviceWorker.init
WorkerInit ==
    /\ smart_cache_clocks = EmptyDict
    /\ smart_cache_data = EmptyDict
    /\ returned = "None"
    /\ h5file = NoFile
    /\ fresh_program = FALSE
    /\ sent_clocks = {}
    /\ sent_data = {}
    /\ error = NoError
    /\ final_state = EmptyDict

NoCall ==
    [op |-> "none", error |-> "None", written |-> 0, dev |-> NoDevice,
     oid |-> 0, occupied |-> FALSE]

DeviceIdle ==
    /\ device = NewDevice(NotGiven, NotGiven)
    /\ declared = [n_analog |-> NotGiven, n_digital |-> NotGiven,
                   generated |-> FALSE]
    /\ last = NoCall

ManualIdle ==
    /\ output_values = EmptyDict
    /\ values = EmptyDict
    /\ actual_values = EmptyDict
    /\ modified_values = EmptyDict
    /\ manual_error = FALSE

Init == CodecIdle /\ WorkerInit /\ DeviceIdle /\ ManualIdle

TransitionToBuffered ==
    \E h5 \in ShotFiles, fresh \in BOOLEAN, fail \in SendFailures :
        \E st \in {transition_to_buffered(h5, fresh, fail)} :
        /\ smart_cache_clocks' = st.clocks
        /\ smart_cache_data' = st.data
        /\ returned' = IF st.error = NoError THEN "final_state" ELSE "raised"
        /\ h5file' = h5
        /\ fresh_program' = fresh
        /\ sent_clocks' = st.sent_clocks
        /\ sent_data' = st.sent_data
        /\ error' = st.error
        /\ final_state' = IF st.error = NoError THEN st.final_state ELSE EmptyDict
        /\ UNCHANGED <<codec_vars, device_vars, manual_vars>>

\* transition_to_manual, abort_buffered and abort_transition_to_buffered
\* return True and touch nothing
ReturnTrue ==
    /\ returned' = "True"
    /\ UNCHANGED <<smart_cache_clocks, smart_cache_data, h5file, fresh_program,
                   sent_clocks, sent_data, error, final_state>>
    /\ UNCHANGED <<codec_vars, device_vars, manual_vars>>

TransitionToManual == ReturnTrue
AbortBuffered == ReturnTrue
AbortTransitionToBuffered == ReturnTrue

Next ==
    \/ TransitionToBuffered
    \/ TransitionToManual
    \/ AbortBuffered
    \/ AbortTransitionToBuffered

Spec == Init /\ [][Next]_vars

\* FPGADevice.generate_code on one pseudoclock, then the runviewer parser
InitCodec ==
    /\ instructions \in ClockInstructions
    /\ arg = <<>>
    /\ clock = instructions
    /\ output = NoOutput
    /\ clock_limit = 10
    /\ ct_clock = <<>>
    /\ stop_time = StopTime
    /\ times = <<>>
    /\ pc = "compiled"
    /\ WorkerInit /\ DeviceIdle /\ ManualIdle

ReduceClockInstructions ==
    /\ pc \in {"compiled", "reduced"}
    /\ arg' = clock
    /\ clock' = reduce_clock_instructions(clock)
    /\ pc' = IF pc = "compiled" THEN "reduced" ELSE "rereduced"
    /\ UNCHANGED <<instructions, output, clock_limit, ct_clock, stop_time, times>>
    /\ UNCHANGED <<worker_vars, device_vars, manual_vars>>

ConvertToClocksAndToggles ==
    /\ pc = "reduced"
    /\ \E out \in AttachedOutputs, limit \in ClockLimits :
        \E st \in {convert_to_clocks_and_toggles(clock, out, limit)} :
        /\ arg' = clock
        /\ clock' = st.clock
        /\ output' = out
        /\ clock_limit' = limit
        /\ ct_clock' = IF st.raised THEN <<>> ELSE st.ct_clock
        /\ pc' = IF st.raised THEN "raised" ELSE "encoded"
    /\ UNCHANGED <<instructions, stop_time, times>>
    /\ UNCHANGED <<worker_vars, device_vars, manual_vars>>

ExpandClock ==
    /\ pc = "encoded"
    /\ times' = expand_clock(ct_clock, clock_limit, stop_time)
    /\ pc' = "expanded"
    /\ UNCHANGED <<instructions, arg, clock, output, clock_limit, ct_clock, stop_time>>
    /\ UNCHANGED <<worker_vars, device_vars, manual_vars>>

NextCodec ==
    \/ ReduceClockInstructions
    \/ ConvertToClocksAndToggles
    \/ ExpandClock

SpecCodec == InitCodec /\ [][NextCodec]_vars

\* expand_clock on any stored clock
InitExpand ==
    /\ instructions = <<>>
    /\ arg = <<>>
    /\ clock = <<>>
    /\ output = NoOutput
    /\ clock_limit \in ClockLimits
    /\ ct_clock \in TickLists
    /\ stop_time \in 0..MaxStop
    /\ times = <<>>
    /\ pc = "encoded"
    /\ WorkerInit /\ DeviceIdle /\ ManualIdle

NextExpand == ExpandClock

SpecExpand == InitExpand /\ [][NextExpand]_vars

\* a labscript file: FPGADevice(name, n_analog, n_digital), then accesses to
\* outputs, outputs attached to the devices returned, and generate_code
InitDevice ==
    /\ \E n_analog \in Counts, n_digital \in Counts :
        /\ device = NewDevice(n_analog, n_digital)
        /\ declared = [n_analog |-> n_analog, n_digital |-> n_digital,
                       generated |-> FALSE]
    /\ last = NoCall
    /\ CodecIdle /\ WorkerInit /\ ManualIdle

Outputs ==
    /\ \E st \in {outputs(device)} :
        /\ Len(device.pseudoclocks) < MaxOutputs \/ st.error # "None"
        /\ device' = st.device
        /\ last' = [NoCall EXCEPT !.op = "outputs", !.error = st.error]
    /\ UNCHANGED <<declared, codec_vars, worker_vars, manual_vars>>

AddDevice(devs) ==
    /\ \E i \in 1..Len(device.output_devices), dev \in devs :
        \E st \in {add_device(device.output_devices[i], dev)} :
            /\ device' = [device EXCEPT !.output_devices[i] = st.oid]
            /\ last' = [NoCall EXCEPT
                            !.op = "add_device", !.error = st.error,
                            !.dev = dev, !.oid = i,
                            !.occupied =
                                device.output_devices[i].child_devices # <<>>]
    /\ UNCHANGED <<declared, codec_vars, worker_vars, manual_vars>>

AttachOutput == AddDevice(DeviceOutputs)

GenerateCode ==
    /\ \E st \in {generate_code(device)} :
        /\ device' = st.device
        /\ last' = [NoCall EXCEPT !.op = "generate_code", !.error = st.error,
                                  !.written = st.written]
    /\ declared' = [declared EXCEPT !.generated = TRUE]
    /\ UNCHANGED <<codec_vars, worker_vars, manual_vars>>

NextDevice ==
    \/ Outputs
    \/ AttachOutput
    \/ GenerateCode

SpecDevice == InitDevice /\ [][NextDevice]_vars

\* one OutputIntermediateDevice, and outputs of any connection attached to it
InitAttach ==
    /\ device = outputs(NewDevice(NotGiven, NotGiven)).device
    /\ declared = [n_analog |-> NotGiven, n_digital |-> NotGiven,
                   generated |-> FALSE]
    /\ last = NoCall
    /\ CodecIdle /\ WorkerInit /\ ManualIdle

AttachAny == AddDevice(AnyOutputs)

NextAttach == AttachAny

SpecAttach == InitAttach /\ [][NextAttach]_vars

\* the worker after init, with the front panel values as initial_values, and
\* calls of program_manual; a call raises when send_realtime_value does
InitManual ==
    /\ output_values \in Dicts(OutputNames)
    /\ values = EmptyDict
    /\ actual_values = EmptyDict
    /\ modified_values = EmptyDict
    /\ manual_error = FALSE
    /\ CodecIdle /\ WorkerInit /\ DeviceIdle

ProgramManual ==
    /\ \E vals \in Dicts(OutputNames), reached \in SUBSET OutputNames,
          actual \in [OutputNames -> 0..MaxValue] :
        /\ reached \subseteq DOMAIN vals
        \* a send raises only for an output that is sent
        /\ reached # DOMAIN vals =>
               \E name \in DOMAIN vals \ reached :
                   ValueDiffers(vals[name], output_values, name)
        /\ \E st \in {program_manual(vals, output_values, reached, actual)} :
            /\ values' = vals
            /\ actual_values' = [name \in DOMAIN st.modified_values |-> actual[name]]
            /\ output_values' = st.output_values
            /\ manual_error' = (reached # DOMAIN vals)
            /\ modified_values' = IF reached # DOMAIN vals
                                  THEN EmptyDict ELSE st.modified_values
    /\ UNCHANGED <<codec_vars, worker_vars, device_vars>>

NextManual == ProgramManual

SpecManual == InitManual /\ [][NextManual]_vars

----------------------------------------------------------------------------
(* Properties of reduce_clock_instructions *)

StepOf(instruction) == IF instruction = WAIT THEN 0 ELSE instruction.step

\* a 'WAIT' that directly follows a 'WAIT' or an instruction of period 0
WaitAfterZero(x) ==
    \E i \in 2..Len(x) : x[i] = WAIT /\ StepOf(x[i - 1]) = 0

C4_WaitNeverMerged ==
    pc = "reduced" =>
        \A i \in 1..Len(instructions) :
            instructions[i] = WAIT =>
                clock = reduce_clock_instructions(SubSeq(instructions, 1, i - 1))
                        \o <<Instruction(0, 1)>>
                        \o reduce_clock_instructions(
                               SubSeq(instructions, i + 1, Len(instructions)))

----------------------------------------------------------------------------
(* Properties of convert_to_clocks_and_toggles *)

\* the tick list C5 describes
TicksAsClaimed(reduced, out, limit) ==
    LET hold(i) == Cycles(reduced[i].step, limit) - 1
        initial == IF out.class = "DigitalOut" THEN out.raw_output[1] ELSE 0
        second == IF reduced[1].reps > 1
                  THEN <<(<<hold(1), reduced[1].reps - 2>>)>>
                  ELSE <<>>
        later == [j \in 1..(Len(reduced) - 1) |->
                     <<hold(j + 1), reduced[j + 1].reps - 1>>]
    IN  <<(<<hold(1), initial>>)>> \o second \o later

\* C5: for a non-empty reduced sequence the ticks are (cycles_0 - 1, initial
\* state), then (cycles_0 - 1, repeats_0 - 2) only if repeats_0 > 1, then
\* (cycles_i - 1, repeats_i - 1) for every later element in order
C5_TicksOfReducedSequence ==
    (pc = "encoded" /\ arg # <<>>) =>
        ct_clock = TicksAsClaimed(arg, output, clock_limit)

C5_Witness ==
    /\ pc = "encoded"
    /\ Len(arg) >= 3
    /\ arg[1].reps > 1
    /\ \E j \in 2..Len(arg) : arg[j].reps = 1
    /\ \E j \in 2..Len(arg) : arg[j].reps > 1
    /\ output = DigitalOut(1)
    /\ ct_clock[1][2] = 1
    /\ Len(ct_clock) = Len(arg) + 1

\* the instance of C6 and C7: periods 0.1 s three times and 0.2 s twice, a
\* digital output starting at 0, 10 cycles per second
IsInstance ==
    /\ arg = <<Instruction(1, 3), Instruction(2, 2)>>
    /\ output = DigitalOut(0)
    /\ clock_limit = 10

\* C6 as stated: the instance encodes to [(0,0),(0,2),(1,1)]
C6_InstanceTicksAsStated ==
    (pc = "encoded" /\ IsInstance) => ct_clock = <<(<<0, 0>>), <<0, 2>>, <<1, 1>>>>

\* C6 amended: the instance encodes to [(0,0),(0,1),(1,1)]
C6_InstanceTicks ==
    (pc = "encoded" /\ IsInstance) => ct_clock = <<(<<0, 0>>), <<0, 1>>, <<1, 1>>>>

C6_Witness ==
    pc = "encoded" /\ IsInstance /\ Len(ct_clock) = 3

----------------------------------------------------------------------------
(* Properties of expand_clock *)

\* the period of each single repeat of the instructions, in order
RECURSIVE Periods(_, _)
Periods(reduced, i) ==
    IF i > Len(reduced)
    THEN <<>>
    ELSE [r \in 1..reduced[i].reps |-> reduced[i].step] \o Periods(reduced, i + 1)

RECURSIVE SumTo(_, _)
SumTo(seq, j) == IF j = 0 THEN 0 ELSE seq[j] + SumTo(seq, j - 1)

Abs(x) == IF x < 0 THEN -x ELSE x

\* C7: in the instance with stop time 1.0 s, every time returned by
\* expand_clock is within one clock cycle of the corresponding toggle time of
\* the instructions, the cumulative sum of their periods
C7_RoundTripWithinOneCycle ==
    (pc = "expanded" /\ IsInstance /\ stop_time = 10) =>
        LET periods == Periods(arg, 1) IN
        \A j \in 1..Len(times) :
            /\ j <= Len(periods)
            /\ Abs(times[j] * PeriodDen - SumTo(periods, j) * clock_limit) <= PeriodDen

\* the times expand_clock emits for tick i of the list
EmittedFor(ticks, i, limit, stop) ==
    Len(expand_clock(SubSeq(ticks, 1, i), limit, stop))
    - Len(expand_clock(SubSeq(ticks, 1, i - 1), limit, stop))

\* toggle n of tick i would exceed the stop time, counted from the last time
\* emitted before the tick
WouldExceed(ticks, i, n, limit, stop) ==
    LET before == expand_clock(SubSeq(ticks, 1, i - 1), limit, stop) IN
    ExceedsStop(before[Len(before)] + n * ticks[i][1], limit, stop)

\* C8: no time returned by expand_clock is greater than the stop time, the
\* time of the first tick included; and a later tick whose Nth toggle is the
\* first to exceed the stop time emits exactly N-1 times
C8_NeverBeyondStopTime ==
    pc = "expanded" =>
        /\ \A j \in 1..Len(times) : ~ExceedsStop(times[j], clock_limit, stop_time)
        /\ \A i \in 2..Len(ct_clock) : \A n \in 1..ct_clock[i][2] :
               (/\ WouldExceed(ct_clock, i, n, clock_limit, stop_time)
                /\ \A m \in 1..(n - 1) :
                       ~WouldExceed(ct_clock, i, m, clock_limit, stop_time))
               => EmittedFor(ct_clock, i, clock_limit, stop_time) = n - 1

----------------------------------------------------------------------------
(* Properties of transition_to_buffered *)

\* the new array is not the array cached under the name
Differs(new, cache, name) == name \notin DOMAIN cache \/ cache[name] # new

SameEntry(before, after, name) ==
    /\ (name \in DOMAIN after) <=> (name \in DOMAIN before)
    /\ name \in DOMAIN before => after[name] = before[name]

\* C1: in a run that returns, a clock (and the data of an analog output) is
\* sent exactly when fresh_program is set or it differs from what the cache
\* held for the output when the run began, no entry counting as differing
C1_SentIffFreshOrChanged ==
    [][returned' = "final_state" =>
        /\ \A o \in DOMAIN h5file'.clocks :
               (o \in sent_clocks') <=>
                   (fresh_program' \/ Differs(h5file'.clocks[o], smart_cache_clocks, o))
        /\ \A o \in DOMAIN h5file'.analog_data :
               (o \in sent_data') <=>
                   (fresh_program' \/ Differs(h5file'.analog_data[o], smart_cache_data, o))
      ]_vars

\* C2: a run in which a send raises leaves the cache entry of that output as
\* it was before the run
C2_FailedSendLeavesCache ==
    [][returned' = "raised" =>
        /\ error'.kind = "clock" =>
               SameEntry(smart_cache_clocks, smart_cache_clocks', error'.output)
        /\ error'.kind = "data" =>
               SameEntry(smart_cache_data, smart_cache_data', error'.output)
      ]_vars

\* C9: the final state reported for a digital output is (s + k) mod 2, s the
\* initial state of the first tick and k the toggles of the remaining ticks
C9_DigitalFinalStateParity ==
    returned = "final_state" =>
        \A o \in (DOMAIN h5file.clocks) \ (DOMAIN h5file.analog_data) :
            /\ o \in DOMAIN final_state
            /\ final_state[o] =
                   (h5file.clocks[o][1][2] + SumToggles(h5file.clocks[o], 2)) % 2

\* C10: the final state returned holds, for every analog output of the run,
\* the last value of its raw data, sent in this run or not
C10_AnalogFinalStateAlways ==
    returned = "final_state" =>
        \A o \in DOMAIN h5file.analog_data :
            /\ o \in DOMAIN final_state
            /\ final_state[o] = h5file.analog_data[o][Len(h5file.analog_data[o])]

----------------------------------------------------------------------------
(* Further properties of convert_to_clocks_and_toggles *)

\* C11: a period that comes to zero clock cycles is an error, so a call that
\* returns was given no such period, and every tick it returns has a hold of
\* at least 0 cycles
C11_ZeroCyclePeriodIsError ==
    pc = "encoded" =>
        /\ \A i \in 1..Len(arg) : Cycles(arg[i].step, clock_limit) > 0
        /\ \A j \in 1..Len(ct_clock) : ct_clock[j][1] >= 0

\* C12: the call returns a tick list only for a digital or an analog output,
\* whatever the instruction sequence, the empty one included
C12_UnsupportedOutputRaises ==
    pc = "encoded" => output.class \in {"DigitalOut", "AnalogOut"}

\* C16: the call leaves the reduced sequence it was given as it was, so that
\* pseudoclock.clock is still the output of reduce_clock_instructions
C16_ConvertLeavesClockUnchanged ==
    pc = "encoded" => clock = arg

----------------------------------------------------------------------------
(* Properties of OutputIntermediateDevice.add_device *)

\* '<kind> <index>': kind 'analog' or 'digital', one space, a number written
\* in digits
WellFormed(connection) ==
    LET parts == Split(connection) IN
    /\ Len(parts) = 2
    /\ parts[1] \in {Analog, Digital}
    /\ parts[2] # <<>>
    /\ \A i \in 1..Len(parts[2]) : parts[2][i] \in Digits

Rejected ==
    /\ last.error = "LabscriptError"
    /\ device.output_devices[last.oid].output = NoDevice

Accepted ==
    /\ last.error = "None"
    /\ device.output_devices[last.oid].output = last.dev

\* C13: attaching to a device that has no output yet, every connection id not
\* of the form '<kind> <index>' is rejected and leaves the device without an
\* output: 'analogue 0', 'digital' and 'digital -1' are rejected, 'digital 3'
\* and 'analog 0' are accepted
C13_IllFormedConnectionRejected ==
    (last.op = "add_device" /\ ~last.occupied) =>
        /\ ~WellFormed(last.dev.connection) => Rejected
        /\ last.dev.connection \in
               {Analogue \o <<" ", "0">>, Digital, Digital \o <<" ", "-", "1">>}
               => Rejected
        /\ last.dev.connection \in
               {Digital \o <<" ", "3">>, Analog \o <<" ", "0">>}
               => Accepted

----------------------------------------------------------------------------
(* Properties of FPGADevice *)

\* C14: generate_code raises, with no clock reduced, encoded or written, when
\* n_analog or n_digital was given to __init__ (0 included) and the number of
\* outputs of that class attached differs from it
C14_DeclaredCountMismatchRaises ==
    last.op = "generate_code" =>
        /\ (declared.n_analog.given
            /\ declared.n_analog.n # CountClass(device, "AnalogOut"))
               => (last.error = "LabscriptError" /\ last.written = 0)
        /\ (declared.n_digital.given
            /\ declared.n_digital.n # CountClass(device, "DigitalOut"))
               => (last.error = "LabscriptError" /\ last.written = 0)

\* the capacity given to __init__ by n_analog, by n_digital or by both
DeclaredCapacity ==
    (IF declared.n_analog.given THEN declared.n_analog.n ELSE 0)
    + (IF declared.n_digital.given THEN declared.n_digital.n ELSE 0)

\* C15: before generate_code, the channels created by the accesses to outputs
\* are never more than the capacity given to __init__ by n_analog, n_digital
\* or both, and the three lists are of equal length
C15_NeverBeyondDeclaredCapacity ==
    (~declared.generated
     /\ (declared.n_analog.given \/ declared.n_digital.given)) =>
        /\ Len(device.pseudoclocks) <= DeclaredCapacity
        /\ Len(device.clocklines) = Len(device.pseudoclocks)
        /\ Len(device.output_devices) = Len(device.pseudoclocks)

----------------------------------------------------------------------------
(* Properties of program_manual *)

SameCacheEntry(name) ==
    /\ (name \in DOMAIN output_values') = (name \in DOMAIN output_values)
    /\ name \in DOMAIN output_values => output_values'[name] = output_values[name]

\* C17: in every call of program_manual, an output whose send returned has
\* the value the hardware returned as its cache entry, and the cache entries
\* of the other outputs are as before the call; a call that returns has sent
\* exactly the outputs whose requested value differed from the cached one,
\* and returns for each of them the value the hardware returned
C17_SentIffDiffersAndStoresActual ==
    [][\A name \in OutputNames :
        /\ name \in DOMAIN actual_values' =>
               output_values'[name] = actual_values'[name]
        /\ name \notin DOMAIN actual_values' => SameCacheEntry(name)
        /\ ~manual_error' =>
               /\ (name \in DOMAIN actual_values') =
                      (/\ name \in DOMAIN values'
                       /\ ValueDiffers(values'[name], output_values, name))
               /\ DOMAIN modified_values' = DOMAIN actual_values'
               /\ name \in DOMAIN actual_values' =>
                      modified_values'[name] = actual_values'[name]]_vars

\* a call returned in which the hardware returned another value than the one
\* requested, and an output of the call was not sent
C17_Witness ==
    /\ ~manual_error
    /\ \E name \in DOMAIN modified_values :
        /\ modified_values[name] # values[name]
        /\ output_values[name] = modified_values[name]
    /\ DOMAIN values # DOMAIN modified_values

====
